---- MODULE Spec2Model ----
(***************************************************************************)
(* Competitive-programming assistant: the MCP tools of                     *)
(* tools/codeforces_tools.py, tools/graphing_tools.py and                  *)
(* tools/leetcode_tools.py, and the bearer-token provider of               *)
(* mcp_instance.py.                                                        *)
(*                                                                         *)
(* Two layers are modelled.  The data layer is the transformation each     *)
(* tool applies to the records an upstream call returned (de-duplication,  *)
(* binning, filtering).  The invocation layer is the control flow of a     *)
(* tool invocation: validation, upstream calls and their awaits, the       *)
(* try/except wrappers, and the process-global pyplot state the graph      *)
(* tools go through.                                                       *)
(*                                                                         *)
(* Python dicts are records whose optional keys may be missing from the    *)
(* DOMAIN; Python strings are TLA+ strings, f-strings are built with \o    *)
(* and ToString.                                                           *)
(***************************************************************************)
EXTENDS Integers, Sequences, FiniteSets, TLC

VARIABLES
    \* ---- data layer: the locals of one transformation ----
    dpc,                 \* position inside the transformation
    dargs,               \* the tool's arguments (optional keys may be missing)
    submissions,         \* result of CodeforcesAPI.get_user_status
    user_info_list,      \* result of CodeforcesAPI.get_user_info
    problemset_data,     \* result of CodeforcesAPI.get_problemset
    solved_submissions,  \* get_solved_problems: de-duplicated accepted submissions
    problem_ratings,     \* get_solved_rating_histogram: bin -> count
    window,              \* recommend_problems: min_rating / max_rating after defaulting
    candidates,          \* recommend_problems: filtered problem list
    response,            \* what the transformation returns or raises
    \* ---- invocation layer: configuration, tool invocations, upstream calls ----
    DEFAULT_HANDLE,      \* config.DEFAULT_HANDLE, read once at import
    pc,                  \* per invocation: "idle", an await point, or "done"
    tool,                \* per invocation: the tool that was called
    args,                \* per invocation: its arguments (optional keys may be missing)
    loc,                 \* per invocation: target handles, loop index, N/A users, fig
    calls,               \* per invocation: the upstream calls it started, in order
    outcome,             \* per invocation: what the caller receives
    raised,              \* per invocation: an upstream call or the transformation raised
    used,                \* per invocation: the calls whose payload the result is built from
    image,               \* per invocation: the figure content a graph tool returned
    \* ---- matplotlib.pyplot, global to the process ----
    rcParams,            \* matplotlib.rcParams
    gcf,                 \* the open figures, the current figure last
    figures,             \* every figure object created so far
    \* ---- authentication, global to the process ----
    self_token,          \* SimpleJWTAuthProvider.token, set once at construction
    attempts,            \* the load_access_token calls so far: token presented, result
    \* ---- data layer of get_rating_changes ----
    changes              \* result of CodeforcesAPI.get_user_rating_changes

dataVars == <<dpc, dargs, submissions, user_info_list, problemset_data,
              solved_submissions, problem_ratings, window, candidates, response>>

toolVars == <<DEFAULT_HANDLE, pc, tool, args, loc, calls, outcome, raised, used, image,
              rcParams, gcf, figures>>

authVars == <<self_token, attempts>>

vars == <<dataVars, toolVars, authVars, changes>>

-----------------------------------------------------------------------------
(* Bounds of the model *)

MaxSubs == 2
MaxTime == 2
MaxCount == 2
NumTasks == 2

-----------------------------------------------------------------------------
(* Upstream records *)

\* Problem objects as the Codeforces API returns them.  contestId and rating
\* are optional keys; index is an arbitrary string.
Problems ==
    { [contestId |-> 1,  index |-> "A",  rating |-> 800],
      [contestId |-> 1,  index |-> "1A", rating |-> 1250],
      [contestId |-> 11, index |-> "A",  rating |-> 1300],
      [contestId |-> 11, index |-> "B"],
      [index |-> "A", rating |-> 1000] }

Verdicts == {"OK", "WRONG_ANSWER"}

Times == 1..MaxTime

Submission == [problem : Problems, verdict : Verdicts, creationTimeSeconds : Times]

RECURSIVE SeqsUpTo(_, _)
SeqsUpTo(S, n) ==
    IF n = 0 THEN {<<>>}
    ELSE LET shorter == SeqsUpTo(S, n - 1)
         IN  shorter \cup {Append(s, x) : s \in {q \in shorter : Len(q) = n - 1}, x \in S}

Counts == (0 - 1)..MaxCount

-----------------------------------------------------------------------------
(* Python helpers *)

\* str(d.get(k)) inside an f-string: a missing key formats as "None".
FmtGet(d, k) == IF k \in DOMAIN d THEN ToString(d[k]) ELSE "None"

\* s[:n]
Slice(s, n) ==
    IF n >= 0 THEN SubSeq(s, 1, IF n < Len(s) THEN n ELSE Len(s))
    ELSE SubSeq(s, 1, IF Len(s) + n > 0 THEN Len(s) + n ELSE 0)

\* sorted(s, key=lambda x: x[k], reverse=True): stable, equal keys keep their order
RECURSIVE InsertDesc(_, _, _)
InsertDesc(sorted, x, k) ==
    IF sorted = <<>> THEN <<x>>
    ELSE IF Head(sorted)[k] >= x[k]
         THEN <<Head(sorted)>> \o InsertDesc(Tail(sorted), x, k)
         ELSE <<x>> \o sorted

RECURSIVE SortedDesc(_, _)
SortedDesc(s, k) ==
    IF s = <<>> THEN <<>>
    ELSE InsertDesc(SortedDesc(SubSeq(s, 1, Len(s) - 1), k), s[Len(s)], k)

Range(s) == {s[i] : i \in 1..Len(s)}

-----------------------------------------------------------------------------
(* The invocation layer at rest, and the data layer at rest *)

Tasks == 1..NumTasks

NoArgs == [k \in {} |-> ""]
NoLocals == [target |-> <<>>, i |-> 0, na |-> {}, fig |-> 0]
NoOutcome == [kind |-> "none", code |-> 0, body |-> ""]
NoImage == [fig |-> 0]
DefaultRc == [grid |-> "default", cycle |-> "default"]
NoResponse == [kind |-> "none"]
EmptyCounts == [x \in {} |-> 0]

NothingInvoked ==
    /\ pc = [t \in Tasks |-> "idle"]
    /\ tool = [t \in Tasks |-> "none"]
    /\ args = [t \in Tasks |-> NoArgs]
    /\ loc = [t \in Tasks |-> NoLocals]
    /\ calls = [t \in Tasks |-> <<>>]
    /\ outcome = [t \in Tasks |-> NoOutcome]
    /\ raised = [t \in Tasks |-> FALSE]
    /\ used = [t \in Tasks |-> {}]
    /\ image = [t \in Tasks |-> NoImage]
    /\ rcParams = DefaultRc
    /\ gcf = <<>>
    /\ figures = <<>>

ToolsOff == DEFAULT_HANDLE = "" /\ NothingInvoked

\* The provider as mcp_instance.py constructs it, before any request
AuthOff == self_token = "secret" /\ attempts = <<>>

DataOff ==
    /\ dpc = "off"
    /\ dargs = NoArgs
    /\ submissions = <<>>
    /\ user_info_list = <<>>
    /\ problemset_data = <<>>
    /\ solved_submissions = <<>>
    /\ problem_ratings = EmptyCounts
    /\ window = <<>>
    /\ candidates = <<>>
    /\ response = NoResponse

-----------------------------------------------------------------------------
(* get_solved_problems *)

\* f"{problem['contestId']}-{problem['index']}"
SolvedProblemIdNoSep(problem) == ToString(problem.contestId) \o problem.index
SolvedProblemId(problem) == ToString(problem.contestId) \o "-" \o problem.index

\* The loop of lines 123-129 over an already sorted list.  acc carries
\* solved_submissions, seen_problems and whether a KeyError was raised.
RECURSIVE SolvedLoop(_, _)
SolvedLoop(subs, acc) ==
    IF subs = <<>> \/ acc.raised THEN acc
    ELSE LET sub == Head(subs)
         IN  IF sub.verdict # "OK" THEN SolvedLoop(Tail(subs), acc)
             ELSE IF "contestId" \notin DOMAIN sub.problem
                  THEN [acc EXCEPT !.raised = TRUE]
                  ELSE LET problem_id == SolvedProblemId(sub.problem)
                       IN  IF problem_id \in acc.seen_problems
                           THEN SolvedLoop(Tail(subs), acc)
                           ELSE SolvedLoop(Tail(subs),
                                    [acc EXCEPT !.solved_submissions = Append(@, sub),
                                                !.seen_problems = @ \cup {problem_id}])

SolvedScanResultUnsorted(subs) ==
    SolvedLoop(subs, [solved_submissions |-> <<>>, seen_problems |-> {}, raised |-> FALSE])
SolvedScanResult(subs) ==
    SolvedLoop(SortedDesc(subs, "creationTimeSeconds"),
               [solved_submissions |-> <<>>, seen_problems |-> {}, raised |-> FALSE])

\* One line of the listing: the url names contestId and index, the tail the date.
SolvedLine(sub) ==
    [contestId |-> sub.problem.contestId, index |-> sub.problem.index,
     solved_on |-> sub.creationTimeSeconds]

InitSolved ==
    /\ ToolsOff
    /\ AuthOff
    /\ changes = <<>>
    /\ dpc = "fetched"
    /\ submissions \in SeqsUpTo(Submission, MaxSubs)
    /\ dargs \in [count : Counts]
    /\ user_info_list = <<>>
    /\ problemset_data = <<>>
    /\ solved_submissions = <<>>
    /\ problem_ratings = <<>>
    /\ window = <<>>
    /\ candidates = <<>>
    /\ response = NoResponse

\* lines 121-129, and the except of lines 141-142
SolvedScan ==
    /\ UNCHANGED <<toolVars, authVars, changes>>
    /\ dpc = "fetched"
    /\ LET r == SolvedScanResult(submissions)
       IN  IF r.raised
           THEN /\ response' = [kind |-> "error", code |-> 500]
                /\ dpc' = "done"
                /\ UNCHANGED solved_submissions
           ELSE /\ solved_submissions' = r.solved_submissions
                /\ dpc' = "scanned"
                /\ UNCHANGED response
    /\ UNCHANGED <<dargs, submissions, user_info_list, problemset_data,
                   problem_ratings, window, candidates>>

\* lines 131-140
SolvedFormat ==
    /\ UNCHANGED <<toolVars, authVars, changes>>
    /\ dpc = "scanned"
    /\ response' =
          IF solved_submissions = <<>>
          THEN [kind |-> "text", body |-> "no_recent_ac", lines |-> <<>>]
          ELSE [kind |-> "text", body |-> "listing",
                lines |-> [i \in 1..Len(Slice(solved_submissions, dargs.count)) |->
                              SolvedLine(solved_submissions[i])]]
    /\ dpc' = "done"
    /\ UNCHANGED <<dargs, submissions, user_info_list, problemset_data,
                   solved_submissions, problem_ratings, window, candidates>>

NextSolved == SolvedScan \/ SolvedFormat

SpecSolved == InitSolved /\ [][NextSolved]_vars

\* The identity of a problem: the pair (contestId, index), contestId possibly missing.
PKey(problem) ==
    <<IF "contestId" \in DOMAIN problem THEN {problem.contestId} ELSE {}, problem.index>>

\* The distinct problems with at least one accepted submission in the fetched list.
AcceptedKeys == {PKey(submissions[i].problem) :
                    i \in {j \in 1..Len(submissions) : submissions[j].verdict = "OK"}}

\* C1: get_solved_problems lists each distinct problem (contestId, index) at most
\* once, also when it has several accepted submissions, and never merges two
\* distinct problems into one entry: the de-duplicated list holds exactly one
\* submission for every distinct accepted problem.
C1_SolvedEachProblemOnce ==
    /\ (dpc = "done" /\ response.kind = "text") =>
          \A i, j \in 1..Len(response.lines) :
              (response.lines[i].contestId = response.lines[j].contestId
                 /\ response.lines[i].index = response.lines[j].index) => i = j
    /\ (dpc = "scanned" \/ (dpc = "done" /\ response.kind = "text")) =>
          /\ {PKey(solved_submissions[i].problem) : i \in 1..Len(solved_submissions)}
                = AcceptedKeys
          /\ Len(solved_submissions) = Cardinality(AcceptedKeys)

\* Two accepted submissions of one problem were fetched and the listing shows it once.
C1_Witness ==
    /\ dpc = "done"
    /\ response.kind = "text"
    /\ Len(response.lines) = 1
    /\ \E i, j \in 1..Len(submissions) :
          /\ i # j
          /\ submissions[i].verdict = "OK"
          /\ submissions[j].verdict = "OK"
          /\ submissions[i].problem = submissions[j].problem

-----------------------------------------------------------------------------
(* get_solved_rating_histogram *)

\* The values of bin_size the model draws from the allowed range 100..400.
BinSizes == {100, 150, 400}

\* f"{problem.get('contestId')}-{problem.get('index')}"
HistProblemIdNoSep(problem) == FmtGet(problem, "contestId") \o problem.index
HistProblemId(problem) == FmtGet(problem, "contestId") \o "-" \o problem.index

\* (problem['rating'] // bin_size) * bin_size
RatingBin(rating, size) == (rating \div size) * size

\* problem_ratings[rating_bin] += 1 on a defaultdict(int)
Increment(f, b) ==
    IF b \in DOMAIN f THEN [f EXCEPT ![b] = @ + 1]
    ELSE [x \in DOMAIN f \cup {b} |-> IF x = b THEN 1 ELSE f[x]]

\* The loop of lines 198-205, in the order the submissions were fetched.
RECURSIVE HistLoop(_, _, _)
HistLoop(subs, size, acc) ==
    IF subs = <<>> THEN acc
    ELSE LET problem == Head(subs).problem
             problem_id == HistProblemId(problem)
         IN  IF /\ Head(subs).verdict = "OK"
                /\ "rating" \in DOMAIN problem
                /\ problem_id \notin acc.seen_problems
             THEN HistLoop(Tail(subs), size,
                      [problem_ratings |->
                           Increment(acc.problem_ratings, RatingBin(problem.rating, size)),
                       seen_problems |-> acc.seen_problems \cup {problem_id}])
             ELSE HistLoop(Tail(subs), size, acc)

InitHistogram ==
    /\ ToolsOff
    /\ AuthOff
    /\ changes = <<>>
    /\ dpc = "fetched"
    /\ submissions \in SeqsUpTo([problem : Problems, verdict : Verdicts,
                                 creationTimeSeconds : {1}], MaxSubs + 1)
    /\ dargs \in [bin_size : BinSizes]
    /\ user_info_list = <<>>
    /\ problemset_data = <<>>
    /\ solved_submissions = <<>>
    /\ problem_ratings = EmptyCounts
    /\ window = <<>>
    /\ candidates = <<>>
    /\ response = NoResponse

\* lines 196-205
HistogramScan ==
    /\ UNCHANGED <<toolVars, authVars, changes>>
    /\ dpc = "fetched"
    /\ problem_ratings' =
          HistLoop(submissions, dargs.bin_size,
                   [problem_ratings |-> EmptyCounts, seen_problems |-> {}]).problem_ratings
    /\ dpc' = "scanned"
    /\ UNCHANGED <<dargs, submissions, user_info_list, problemset_data,
                   solved_submissions, window, candidates, response>>

\* sorted(problem_ratings.keys()), ascending
RECURSIVE SortedBins(_)
SortedBins(bins) ==
    IF bins = {} THEN <<>>
    ELSE LET lo == CHOOSE b \in bins : \A c \in bins : b <= c
         IN  <<lo>> \o SortedBins(bins \ {lo})

\* lines 207-221: one row per bin, "lo-hi | bar (count)"
HistogramFormat ==
    /\ UNCHANGED <<toolVars, authVars, changes>>
    /\ dpc = "scanned"
    /\ response' =
          IF DOMAIN problem_ratings = {}
          THEN [kind |-> "text", body |-> "no_rated_problems", lines |-> <<>>]
          ELSE LET sorted_bins == SortedBins(DOMAIN problem_ratings)
               IN  [kind |-> "text", body |-> "histogram",
                    lines |-> [i \in 1..Len(sorted_bins) |->
                                  [lo |-> sorted_bins[i],
                                   hi |-> sorted_bins[i] + dargs.bin_size - 1,
                                   count |-> problem_ratings[sorted_bins[i]]]]]
    /\ dpc' = "done"
    /\ UNCHANGED <<dargs, submissions, user_info_list, problemset_data,
                   solved_submissions, problem_ratings, window, candidates>>

NextHistogram == HistogramScan \/ HistogramFormat

SpecHistogram == InitHistogram /\ [][NextHistogram]_vars

\* The distinct problems that carry a rating and have an accepted submission.
RatedAccepted ==
    {submissions[i].problem :
        i \in {j \in 1..Len(submissions) :
                  /\ submissions[j].verdict = "OK"
                  /\ "rating" \in DOMAIN submissions[j].problem}}

RECURSIVE SumCounts(_, _)
SumCounts(f, bins) ==
    IF bins = {} THEN 0
    ELSE LET b == CHOOSE x \in bins : TRUE
         IN  f[b] + SumCounts(f, bins \ {b})

\* floor(rating / bin_size) * bin_size, by its defining inequalities
IsFloorBin(b, rating, size) ==
    /\ b <= rating
    /\ rating < b + size
    /\ b % size = 0

\* C2: for every submission list and bin size, the histogram's counts sum to the
\* number of distinct rated problems with an accepted submission, and every such
\* problem is counted in the bin floor(rating / bin_size) * bin_size: each bin's
\* count is the number of those problems whose rating falls into it.
C2_HistogramCounts ==
    (dpc \in {"scanned", "done"}) =>
        /\ SumCounts(problem_ratings, DOMAIN problem_ratings) = Cardinality(RatedAccepted)
        /\ \A p \in RatedAccepted :
              \E b \in DOMAIN problem_ratings : IsFloorBin(b, p.rating, dargs.bin_size)
        /\ \A b \in DOMAIN problem_ratings :
              problem_ratings[b] =
                 Cardinality({p \in RatedAccepted : IsFloorBin(b, p.rating, dargs.bin_size)})
        /\ (dpc = "done" /\ response.body = "histogram") =>
              /\ \A i \in 1..Len(response.lines) :
                    response.lines[i].count = problem_ratings[response.lines[i].lo]
              /\ {response.lines[i].lo : i \in 1..Len(response.lines)} = DOMAIN problem_ratings
              /\ \A i, j \in 1..Len(response.lines) :
                    i < j => response.lines[i].lo < response.lines[j].lo

\* A problem accepted twice next to a different rated problem in the same bin:
\* the bin counts two problems for three accepted submissions.
C2_Witness ==
    /\ dpc = "done"
    /\ response.body = "histogram"
    /\ \E i \in 1..Len(response.lines) : response.lines[i].count = 2
    /\ Cardinality(RatedAccepted) = 2
    /\ Cardinality({j \in 1..Len(submissions) :
                       /\ submissions[j].verdict = "OK"
                       /\ "rating" \in DOMAIN submissions[j].problem}) = 3

-----------------------------------------------------------------------------
(* recommend_problems *)

DefaultUserRating == 1200
WindowWidth == 199

\* The argument records the model draws: min_rating and max_rating are optional.
RecommendArgs ==
    UNION { {[count |-> c],
             [count |-> c, min_rating |-> 800],
             [count |-> c, max_rating |-> 1299],
             [count |-> c, min_rating |-> 800, max_rating |-> 1299]} : c \in Counts }

\* get_user_info answers: no user, a rated user, a user without a rating.
UserInfoLists == { <<>>, <<[handle |-> "u1", rating |-> 1250]>>, <<[handle |-> "u1"]>> }

\* get_problemset answers: the problem list, the list of the problems that have a
\* contestId, or a payload without 'problems'.
ProblemList ==
    << [contestId |-> 1,  index |-> "A",  rating |-> 800],
       [contestId |-> 1,  index |-> "1A", rating |-> 1250],
       [contestId |-> 11, index |-> "A",  rating |-> 1300],
       [contestId |-> 11, index |-> "B"],
       [index |-> "A", rating |-> 1000] >>

ProblemsetPayloads ==
    { [problems |-> ProblemList],
      [problems |-> SubSeq(ProblemList, 1, 4)],
      [problemSetName |-> "x"] }

\* lines 77-80: the window when neither bound was supplied
DefaultWindowWide(user) ==
    LET user_rating == IF "rating" \in DOMAIN user THEN user.rating ELSE DefaultUserRating
    IN  [min_rating |-> user_rating, max_rating |-> user_rating + WindowWidth + 1]
DefaultWindow(user) ==
    LET user_rating == IF "rating" \in DOMAIN user THEN user.rating ELSE DefaultUserRating
    IN  [min_rating |-> user_rating, max_rating |-> user_rating + WindowWidth]

\* the bounds the caller supplied, a missing key standing for None
SuppliedWindow(a) == [k \in DOMAIN a \cap {"min_rating", "max_rating"} |-> a[k]]

\* f"{s['problem']['contestId']}{s['problem']['index']}", f"{p.get('contestId')}{p.get('index')}"
SolvedId(problem) == ToString(problem.contestId) \o problem.index
CandidateId(p) == FmtGet(p, "contestId") \o p.index

\* min_rating <= p['rating'] <= max_rating, a missing bound being None:
\* "raise" is the TypeError of comparing None with an int.
InWindow(w, rating) ==
    IF "min_rating" \notin DOMAIN w THEN "raise"
    ELSE IF ~(w.min_rating <= rating) THEN "no"
    ELSE IF "max_rating" \notin DOMAIN w THEN "raise"
    ELSE IF rating <= w.max_rating THEN "yes" ELSE "no"

\* line 88, one problem: "skip", "keep" or "raise"
Candidate(p, solved_ids, w) ==
    IF CandidateId(p) \in solved_ids THEN "skip"
    ELSE IF "rating" \notin DOMAIN p THEN "skip"
    ELSE CASE InWindow(w, p.rating) = "yes" -> "keep"
           [] InWindow(w, p.rating) = "no" -> "skip"
           [] OTHER -> "raise"

\* random.shuffle(candidates); candidates[:count]: any arrangement may come first
RECURSIVE Arrangements(_, _)
Arrangements(S, k) ==
    IF k = 0 \/ S = {} THEN {<<>>}
    ELSE UNION { {<<x>> \o rest : rest \in Arrangements(S \ {x}, k - 1)} : x \in S }

InitRecommend ==
    /\ ToolsOff
    /\ AuthOff
    /\ changes = <<>>
    /\ dpc = "start"
    /\ submissions \in SeqsUpTo([problem : Problems, verdict : Verdicts,
                                 creationTimeSeconds : {1}], MaxSubs)
    /\ dargs \in RecommendArgs
    /\ user_info_list \in UserInfoLists
    /\ problemset_data \in ProblemsetPayloads
    /\ solved_submissions = <<>>
    /\ problem_ratings = EmptyCounts
    /\ window = <<>>
    /\ candidates = <<>>
    /\ response = NoResponse

\* lines 73-80
RecommendWindow ==
    /\ UNCHANGED <<toolVars, authVars, changes>>
    /\ dpc = "start"
    /\ IF user_info_list = <<>>
       THEN /\ response' = [kind |-> "text", body |-> "could_not_find_user", lines |-> <<>>]
            /\ dpc' = "done"
            /\ UNCHANGED window
       ELSE /\ window' = IF DOMAIN SuppliedWindow(dargs) = {}
                         THEN DefaultWindow(user_info_list[1])
                         ELSE SuppliedWindow(dargs)
            /\ dpc' = "fetched"
            /\ UNCHANGED response
    /\ UNCHANGED <<dargs, submissions, user_info_list, problemset_data,
                   solved_submissions, problem_ratings, candidates>>

\* lines 87-88, and the except of lines 99-100
RecommendFilter ==
    /\ UNCHANGED <<toolVars, authVars, changes>>
    /\ dpc = "fetched"
    /\ LET accepted == SelectSeq(submissions, LAMBDA sub : sub.verdict = "OK")
           key_error == \E i \in 1..Len(accepted) :
                            "contestId" \notin DOMAIN accepted[i].problem
           solved_ids == {SolvedId(accepted[i].problem) : i \in 1..Len(accepted)}
           problems == IF "problems" \in DOMAIN problemset_data
                       THEN problemset_data.problems ELSE <<>>
       IN  IF key_error \/ \E i \in 1..Len(problems) :
                                Candidate(problems[i], solved_ids, window) = "raise"
           THEN /\ response' = [kind |-> "error", code |-> 500]
                /\ dpc' = "done"
                /\ UNCHANGED candidates
           ELSE /\ candidates' =
                      SelectSeq(problems,
                                LAMBDA q : Candidate(q, solved_ids, window) = "keep")
                /\ dpc' = "filtered"
                /\ UNCHANGED response
    /\ UNCHANGED <<dargs, submissions, user_info_list, problemset_data,
                   solved_submissions, problem_ratings, window>>

\* lines 90-98, and the except of lines 99-100 (problem['contestId'] in the url)
RecommendFormat ==
    /\ UNCHANGED <<toolVars, authVars, changes>>
    /\ dpc = "filtered"
    /\ IF candidates = <<>>
       THEN response' = [kind |-> "text", body |-> "no_suitable_problems", lines |-> <<>>]
       ELSE \E shuffled \in Arrangements(1..Len(candidates),
                                          Len(Slice(candidates, dargs.count))) :
               LET listed == [i \in 1..Len(shuffled) |-> candidates[shuffled[i]]]
               IN  response' =
                     IF \E i \in 1..Len(listed) : "contestId" \notin DOMAIN listed[i]
                     THEN [kind |-> "error", code |-> 500]
                     ELSE [kind |-> "text", body |-> "recommendations", lines |-> listed]
    /\ dpc' = "done"
    /\ UNCHANGED <<dargs, submissions, user_info_list, problemset_data,
                   solved_submissions, problem_ratings, window, candidates>>

NextRecommend == RecommendWindow \/ RecommendFilter \/ RecommendFormat

SpecRecommend == InitRecommend /\ [][NextRecommend]_vars

\* The problems of the fetched problem set.
FetchedProblems ==
    IF "problems" \in DOMAIN problemset_data THEN Range(problemset_data.problems) ELSE {}

RecommendListed == dpc = "done" /\ response.kind = "text" /\ response.body = "recommendations"

\* (a), (b), (c) of C8: what every listed problem satisfies
C8_ListedProblemsFit ==
    RecommendListed =>
        /\ \A i \in 1..Len(response.lines) :
              /\ PKey(response.lines[i]) \notin AcceptedKeys
              /\ "rating" \in DOMAIN response.lines[i]
              /\ window.min_rating <= response.lines[i].rating
              /\ response.lines[i].rating <= window.max_rating
        /\ dargs.count >= 0 => Len(response.lines) <= dargs.count
        /\ \A i, j \in 1..Len(response.lines) :
              PKey(response.lines[i]) = PKey(response.lines[j]) => i = j

\* the last part of C8: an unsolved problem inside the window is a candidate
C8_NoUnsolvedProblemExcluded ==
    (dpc = "filtered" \/ RecommendListed) =>
        \A p \in FetchedProblems :
            (/\ PKey(p) \notin AcceptedKeys
             /\ "rating" \in DOMAIN p
             /\ DOMAIN window = {"min_rating", "max_rating"}
             /\ window.min_rating <= p.rating
             /\ p.rating <= window.max_rating) => p \in Range(candidates)

\* C8: every problem recommend_problems lists has no accepted submission by the
\* user, has a rating inside [min_rating, max_rating], the list holds at most
\* count problems (count >= 0), each once; and no unsolved problem is excluded
\* because its id collides with the id of a different, solved problem.
C8_RecommendContract == C8_ListedProblemsFit /\ C8_NoUnsolvedProblemExcluded

\* C9: when neither min_rating nor max_rating is supplied the window is
\* [R, R + 199], R the user's rating or 1200 when the user has none; a bound
\* the caller supplied is used unchanged.
C9_RatingWindow ==
    (dpc \in {"fetched", "filtered"} \/ (dpc = "done" /\ user_info_list # <<>>)) =>
        /\ ("min_rating" \notin DOMAIN dargs /\ "max_rating" \notin DOMAIN dargs) =>
              LET R == IF "rating" \in DOMAIN user_info_list[1]
                       THEN user_info_list[1].rating ELSE 1200
              IN  window = [min_rating |-> R, max_rating |-> R + 199]
        /\ "min_rating" \in DOMAIN dargs =>
              "min_rating" \in DOMAIN window /\ window.min_rating = dargs.min_rating
        /\ "max_rating" \in DOMAIN dargs =>
              "max_rating" \in DOMAIN window /\ window.max_rating = dargs.max_rating
        /\ RecommendListed =>
              \A i \in 1..Len(response.lines) :
                  /\ window.min_rating <= response.lines[i].rating
                  /\ response.lines[i].rating <= window.max_rating

\* An unrated user without supplied bounds is recommended a problem from 1200..1399.
C9_Witness ==
    /\ RecommendListed
    /\ DOMAIN dargs = {"count"}
    /\ "rating" \notin DOMAIN user_info_list[1]
    /\ window = [min_rating |-> 1200, max_rating |-> 1399]
    /\ Len(response.lines) > 0

-----------------------------------------------------------------------------
(* Invocation layer: arguments, upstream calls, responses *)

Defaults == {"", "me"}

\* handle arguments: empty, blank, a real handle
HandleValues == {"", " ", "u1"}
HandleLists == { <<>>, <<"">>, <<"u1">>, <<"", "u1">>, <<"u1", "u2">> }

HandleArgs == {NoArgs} \cup {[handle |-> h] : h \in HandleValues}
HandlesArgs == {NoArgs} \cup {[handles |-> l] : l \in HandleLists}
RatingGraphArgs ==
    HandleArgs \cup {[handles |-> l] : l \in HandleLists}
               \cup {[handle |-> h, handles |-> l] : h \in HandleValues, l \in HandleLists}

\* What an awaited upstream call can come back with: a non-empty payload, an
\* empty payload, a payload the tool's transformation raises on (a key is
\* missing), or an exception raised by the await itself.
Answers == {"ok", "empty", "bad", "fail"}

NewCall(ep, arg) == [ep |-> ep, arg |-> arg, st |-> "pending"]

\* Python truthiness of an optional string argument / of the `or` default
ArgHandle(a) == IF "handle" \in DOMAIN a THEN a.handle ELSE ""
ArgHandles(a) == IF "handles" \in DOMAIN a THEN a.handles ELSE <<>>
OrDefault(h) == IF h # "" THEN h ELSE DEFAULT_HANDLE

\* str.strip() on the handle values of the model
Strip(h) == IF h = " " THEN "" ELSE h

\* McpError(ErrorData(code=..., message=...)) and a normal str return
TextInsteadOfError(code, body) == [kind |-> "text", code |-> 0, body |-> body]
McpError(code, body) == [kind |-> "error", code |-> code, body |-> body]
Text(body) == [kind |-> "text", code |-> 0, body |-> body]

\* the invocation ends: return or raise to the MCP caller
Done(t, out, exc, u) ==
    /\ pc' = [pc EXCEPT ![t] = "done"]
    /\ outcome' = [outcome EXCEPT ![t] = out]
    /\ raised' = [raised EXCEPT ![t] = @ \/ exc]
    /\ used' = [used EXCEPT ![t] = u]

\* the invocation suspends at an await after starting `new` upstream calls
Suspend(t, at, new) ==
    /\ pc' = [pc EXCEPT ![t] = at]
    /\ calls' = [calls EXCEPT ![t] = @ \o new]
    /\ UNCHANGED <<outcome, raised, used>>

Entered(t, name, a) ==
    /\ pc[t] = "idle"
    /\ tool' = [tool EXCEPT ![t] = name]
    /\ args' = [args EXCEPT ![t] = a]

St(t, k) == calls[t][k].st
Completed(t, ks) == \A k \in ks : St(t, k) # "pending"

mplVars == <<rcParams, gcf, figures>>

\* the upstream answers call k of invocation t
Respond(t, k) ==
    /\ k \in 1..Len(calls[t])
    /\ St(t, k) = "pending"
    /\ \E a \in Answers : calls' = [calls EXCEPT ![t][k].st = a]
    /\ UNCHANGED <<DEFAULT_HANDLE, pc, tool, args, loc, outcome, raised, used, image, mplVars>>
    /\ UNCHANGED <<dataVars, authVars, changes>>

-----------------------------------------------------------------------------
(* get_codeforces_user_stats *)

\* lines 27-32
CallUserStats(t) ==
    \E a \in HandlesArgs :
        /\ Entered(t, "get_codeforces_user_stats", a)
        /\ LET target_handles == IF ArgHandles(a) # <<>> THEN ArgHandles(a)
                                 ELSE <<DEFAULT_HANDLE>>
           IN  IF target_handles[1] = ""
               THEN /\ Done(t, McpError(400, "no_handles_no_default"), FALSE, {})
                    /\ UNCHANGED <<calls, loc>>
               ELSE /\ Suspend(t, "await", <<NewCall("user.info", target_handles)>>)
                    /\ loc' = [loc EXCEPT ![t].target = target_handles]
        /\ UNCHANGED <<DEFAULT_HANDLE, image, mplVars>>
        /\ UNCHANGED <<dataVars, authVars, changes>>

\* lines 32-51
FinishUserStats(t) ==
    /\ pc[t] = "await"
    /\ tool[t] = "get_codeforces_user_stats"
    /\ Completed(t, {1})
    /\ CASE St(t, 1) \in {"fail", "bad"} -> Done(t, McpError(500, "error_fetching"), TRUE, {})
         [] St(t, 1) = "empty" -> Done(t, Text("could_not_find"), FALSE, {})
         [] OTHER -> Done(t, Text("user_stats"), FALSE, {1})
    /\ UNCHANGED <<DEFAULT_HANDLE, tool, args, loc, calls, image, mplVars>>
    /\ UNCHANGED <<dataVars, authVars, changes>>

-----------------------------------------------------------------------------
(* get_solved_problems, get_rating_changes, get_solved_rating_histogram:      *)
(* the same control flow around one upstream call                            *)

TextToolEndpoint ==
    [get_solved_problems |-> "user.status",
     get_rating_changes |-> "user.rating",
     get_solved_rating_histogram |-> "user.status"]

TextTools == DOMAIN TextToolEndpoint

\* lines 115-120, 157-162, 190-195
CallTextTool(t) ==
    \E name \in TextTools, a \in HandleArgs :
        /\ Entered(t, name, a)
        /\ LET target_handle == OrDefault(ArgHandle(a))
           IN  IF target_handle = ""
               THEN /\ Done(t, McpError(400, "specify_handle"), FALSE, {})
                    /\ UNCHANGED <<calls, loc>>
               ELSE /\ Suspend(t, "await",
                               <<NewCall(TextToolEndpoint[name], <<target_handle>>)>>)
                    /\ loc' = [loc EXCEPT ![t].target = <<target_handle>>]
        /\ UNCHANGED <<DEFAULT_HANDLE, image, mplVars>>
        /\ UNCHANGED <<dataVars, authVars, changes>>

\* lines 120-142, 162-175, 195-223
FinishTextTool(t) ==
    /\ pc[t] = "await"
    /\ tool[t] \in TextTools
    /\ Completed(t, {1})
    /\ CASE St(t, 1) \in {"fail", "bad"} -> Done(t, McpError(500, "error_fetching"), TRUE, {})
         [] St(t, 1) = "empty" -> Done(t, Text("nothing_found"), FALSE, {})
         [] OTHER -> Done(t, Text("listing"), FALSE, {1})
    /\ UNCHANGED <<DEFAULT_HANDLE, tool, args, loc, calls, image, mplVars>>
    /\ UNCHANGED <<dataVars, authVars, changes>>

-----------------------------------------------------------------------------
(* recommend_problems *)

\* lines 68-73
CallRecommend(t) ==
    \E a \in HandleArgs :
        /\ Entered(t, "recommend_problems", a)
        /\ LET target_handle == OrDefault(ArgHandle(a))
           IN  IF target_handle = ""
               THEN /\ Done(t, McpError(400, "specify_handle"), FALSE, {})
                    /\ UNCHANGED <<calls, loc>>
               ELSE /\ Suspend(t, "await_user_info",
                               <<NewCall("user.info", <<target_handle>>)>>)
                    /\ loc' = [loc EXCEPT ![t].target = <<target_handle>>]
        /\ UNCHANGED <<DEFAULT_HANDLE, image, mplVars>>
        /\ UNCHANGED <<dataVars, authVars, changes>>

\* lines 82-85: asyncio.gather starts both coroutines before it is awaited
RecommendGatherOneByOne(target) == <<NewCall("user.status", target)>>
RecommendGather(target) ==
    <<NewCall("user.status", target), NewCall("problemset.problems", <<>>)>>

\* lines 73-85
RecommendUserInfo(t) ==
    /\ pc[t] = "await_user_info"
    /\ tool[t] = "recommend_problems"
    /\ Completed(t, {1})
    /\ CASE St(t, 1) \in {"fail", "bad"} ->
              /\ Done(t, McpError(500, "error_generating"), TRUE, {})
              /\ UNCHANGED calls
         [] St(t, 1) = "empty" ->
              /\ Done(t, Text("could_not_find_user"), FALSE, {})
              /\ UNCHANGED calls
         [] OTHER -> Suspend(t, "await_gather", RecommendGather(loc[t].target))
    /\ UNCHANGED <<DEFAULT_HANDLE, tool, args, loc, image, mplVars>>
    /\ UNCHANGED <<dataVars, authVars, changes>>

\* lines 82-100: gather raises as soon as one of its awaitables raises
FinishRecommend(t) ==
    /\ pc[t] = "await_gather"
    /\ tool[t] = "recommend_problems"
    /\ \/ /\ \E k \in {2, 3} : St(t, k) = "fail"
          /\ Done(t, McpError(500, "error_generating"), TRUE, {})
       \/ /\ Completed(t, {2, 3})
          /\ \A k \in {2, 3} : St(t, k) # "fail"
          /\ IF \E k \in {2, 3} : St(t, k) = "bad"
             THEN Done(t, McpError(500, "error_generating"), TRUE, {})
             ELSE IF St(t, 3) = "empty"
                  THEN Done(t, Text("no_suitable_problems"), FALSE, {1, 2})
                  ELSE Done(t, Text("recommendations"), FALSE, {1, 2, 3})
    /\ UNCHANGED <<DEFAULT_HANDLE, tool, args, loc, calls, image, mplVars>>
    /\ UNCHANGED <<dataVars, authVars, changes>>

-----------------------------------------------------------------------------
(* compare_codeforces_users *)

\* lines 252-257
CallCompare(t) ==
    \E l \in HandleLists :
        /\ Entered(t, "compare_codeforces_users", [handles |-> l])
        /\ IF Len(l) < 2
           THEN /\ Done(t, Text("provide_two_handles"), FALSE, {})
                /\ UNCHANGED <<calls, loc>>
           ELSE /\ Suspend(t, "await_user_info", <<NewCall("user.info", l)>>)
                /\ loc' = [loc EXCEPT ![t].target = l]
        /\ UNCHANGED <<DEFAULT_HANDLE, image, mplVars>>
        /\ UNCHANGED <<dataVars, authVars, changes>>

\* the for loop of line 271: the user handled after user i
NextUserRetryOnFailure(i, failed) == IF failed THEN i ELSE i + 1
NextUser(i, failed) == i + 1

\* lines 289, 303 and on: the loop moves on, or the report of lines 306-339 is returned
CompareAdvance(t, failed, measured) ==
    LET i == loc[t].i
        next == NextUser(i, failed)
        na == IF failed THEN loc[t].na \cup {i} ELSE loc[t].na
        built == used[t] \cup measured
    IN  IF next <= Len(loc[t].target)
        THEN /\ pc' = [pc EXCEPT ![t] = "await_rating"]
             /\ calls' = [calls EXCEPT
                            ![t] = Append(@, NewCall("user.rating", <<loc[t].target[next]>>))]
             /\ loc' = [loc EXCEPT ![t].i = next, ![t].na = na]
             /\ raised' = [raised EXCEPT ![t] = @ \/ failed]
             /\ used' = [used EXCEPT ![t] = built]
             /\ UNCHANGED outcome
        ELSE /\ Done(t, Text("report"), failed, built)
             /\ loc' = [loc EXCEPT ![t].na = na]
             /\ UNCHANGED calls

\* lines 257-275, and the except of lines 341-342
CompareUsers(t) ==
    /\ pc[t] = "await_user_info"
    /\ tool[t] = "compare_codeforces_users"
    /\ Completed(t, {1})
    /\ CASE St(t, 1) \in {"fail", "bad"} ->
              /\ Done(t, Text("comparison_failed"), TRUE, {})
              /\ UNCHANGED <<calls, loc>>
         [] St(t, 1) = "empty" ->
              /\ Done(t, Text("could_not_find_users"), FALSE, {})
              /\ UNCHANGED <<calls, loc>>
         [] OTHER ->
              /\ pc' = [pc EXCEPT ![t] = "await_rating"]
              /\ calls' = [calls EXCEPT
                             ![t] = Append(@, NewCall("user.rating", <<loc[t].target[1]>>))]
              /\ loc' = [loc EXCEPT ![t].i = 1]
              /\ used' = [used EXCEPT ![t] = {1}]
              /\ UNCHANGED <<outcome, raised>>
    /\ UNCHANGED <<DEFAULT_HANDLE, tool, args, image, mplVars>>
    /\ UNCHANGED <<dataVars, authVars, changes>>

\* lines 275-276, and the except of lines 291-303
CompareRating(t) ==
    /\ pc[t] = "await_rating"
    /\ Completed(t, {Len(calls[t])})
    /\ IF St(t, Len(calls[t])) = "fail"
       THEN CompareAdvance(t, TRUE, {})
       ELSE /\ Suspend(t, "await_status",
                       <<NewCall("user.status", <<loc[t].target[loc[t].i]>>)>>)
            /\ UNCHANGED loc
    /\ UNCHANGED <<DEFAULT_HANDLE, tool, args, image, mplVars>>
    /\ UNCHANGED <<dataVars, authVars, changes>>

\* lines 276-303
CompareStatus(t) ==
    /\ pc[t] = "await_status"
    /\ Completed(t, {Len(calls[t])})
    /\ LET n == Len(calls[t])
       IN  IF St(t, n) \in {"fail", "bad"} \/ St(t, n - 1) = "bad"
           THEN CompareAdvance(t, TRUE, {})
           ELSE CompareAdvance(t, FALSE, {n - 1, n})
    /\ UNCHANGED <<DEFAULT_HANDLE, tool, args, image, mplVars>>
    /\ UNCHANGED <<dataVars, authVars, changes>>

-----------------------------------------------------------------------------
(* get_leetcode_daily_problem *)

\* leetcode_tools.py lines 40-42
CallLeetcodeDaily(t) ==
    /\ Entered(t, "get_leetcode_daily_problem", NoArgs)
    /\ Suspend(t, "await", <<NewCall("leetcode.daily", <<>>)>>)
    /\ UNCHANGED <<DEFAULT_HANDLE, loc, image, mplVars>>
    /\ UNCHANGED <<dataVars, authVars, changes>>

\* leetcode_tools.py lines 42-63
FinishLeetcodeDaily(t) ==
    /\ pc[t] = "await"
    /\ tool[t] = "get_leetcode_daily_problem"
    /\ Completed(t, {1})
    /\ CASE St(t, 1) \in {"fail", "bad"} -> Done(t, McpError(500, "error_fetching"), TRUE, {})
         [] St(t, 1) = "empty" -> Done(t, Text("could_not_fetch"), FALSE, {})
         [] OTHER -> Done(t, Text("daily_problem"), FALSE, {1})
    /\ UNCHANGED <<DEFAULT_HANDLE, tool, args, loc, calls, image, mplVars>>
    /\ UNCHANGED <<dataVars, authVars, changes>>

-----------------------------------------------------------------------------
(* Tools that return a fixed string: the three placeholders that take a      *)
(* handle, and show_bot_capabilities                                         *)

PlaceholderTools == {"get_upsolve_targets", "plot_tag_distribution", "plot_language_distribution"}

\* codeforces_tools.py lines 233-239, 352-353; graphing_tools.py lines 245-250, 259-263
CallStatic(t) ==
    /\ \/ \E name \in PlaceholderTools, a \in HandleArgs : Entered(t, name, a)
       \/ Entered(t, "show_bot_capabilities", NoArgs)
    /\ Done(t, Text("fixed_text"), FALSE, {})
    /\ UNCHANGED <<DEFAULT_HANDLE, loc, calls, image, mplVars>>
    /\ UNCHANGED <<dataVars, authVars, changes>>

-----------------------------------------------------------------------------
(* matplotlib.pyplot as the graph tools use it.  A state of pyplot is a      *)
(* record m of rcParams, the open figures (current last) and all figures.    *)

Pyplot == [rcParams |-> rcParams, gcf |-> gcf, figures |-> figures]

\* plt.style.use(name): updates the rcParams the style sheet names, keeps the rest
StyleUse(m, name) ==
    IF name = "seaborn-v0_8-darkgrid"
    THEN [m EXCEPT !.rcParams.grid = "darkgrid"]
    ELSE [m EXCEPT !.rcParams.cycle = "deep"]

NewFigure(m, t) ==
    [owner |-> t, rc |-> m.rcParams, data |-> {}, touched |-> {},
     saved_by |-> {}, closed_by |-> {}]

\* plt.subplots(): a new figure, which becomes the current figure
Subplots(m, t) ==
    [m EXCEPT !.figures = Append(@, NewFigure(m, t)),
              !.gcf = Append(@, Len(m.figures) + 1)]

\* plt.gcf() / plt.gca(): the current figure, created when none is open
GetCurrent(m, t) == IF m.gcf = <<>> THEN Subplots(m, t) ELSE m
Current(m) == m.gcf[Len(m.gcf)]

\* ax.plot(...), ax.bar(...), ax.pie(...) on the axes object the tool holds
AxDraw(m, f, t) == [m EXCEPT !.figures[f].data = @ \cup {t}]

\* plt.grid(...), plt.tight_layout(): act on the current figure
PltOnCurrent(m, t) ==
    LET m1 == GetCurrent(m, t)
    IN  [m1 EXCEPT !.figures[Current(m1)].touched = @ \cup {t}]

\* plt.savefig(buf): renders the current figure
SaveFig(m, t) ==
    LET m1 == GetCurrent(m, t)
    IN  [m1 EXCEPT !.figures[Current(m1)].saved_by = @ \cup {t}]

\* plt.close(): closes the current figure, if there is one
PltClose(m, t) ==
    IF m.gcf = <<>> THEN m
    ELSE [m EXCEPT !.figures[Current(m)].closed_by = @ \cup {t},
                   !.gcf = SubSeq(@, 1, Len(@) - 1)]

\* _plot_to_base64, lines 21-27: the picture is the current figure's content
Rendered(m, t) ==
    LET m1 == GetCurrent(m, t)
        f == m1.figures[Current(m1)]
    IN  [fig |-> Current(m1), owner |-> f.owner, rc |-> f.rc, data |-> f.data,
         touched |-> f.touched]
PlotToBase64(m, t) == PltClose(SaveFig(m, t), t)

SetPyplot(m) ==
    /\ rcParams' = m.rcParams
    /\ gcf' = m.gcf
    /\ figures' = m.figures

-----------------------------------------------------------------------------
(* plot_rating_graph *)

\* lines 49-56: the target handles, <<>> standing for the code-400 branch
RatingGraphTarget(a) ==
    IF ArgHandle(a) # "" /\ ArgHandles(a) = <<>> THEN <<ArgHandle(a)>>
    ELSE IF ArgHandles(a) # <<>> THEN ArgHandles(a)
    ELSE IF DEFAULT_HANDLE # "" THEN <<DEFAULT_HANDLE>>
    ELSE <<>>

\* lines 49-62
CallPlotRating(t, A) ==
    \E a \in A :
        /\ Entered(t, "plot_rating_graph", a)
        /\ LET target_handles == RatingGraphTarget(a)
               m == Subplots(StyleUse(Pyplot, "seaborn-v0_8-darkgrid"), t)
           IN  IF target_handles = <<>>
               THEN /\ Done(t, McpError(400, "specify_handle"), FALSE, {})
                    /\ UNCHANGED <<calls, loc, mplVars>>
               ELSE /\ Suspend(t, "await_gather",
                               [i \in 1..Len(target_handles) |->
                                   NewCall("user.rating", <<target_handles[i]>>)])
                    /\ loc' = [loc EXCEPT ![t].target = target_handles,
                                          ![t].fig = Current(m)]
                    /\ SetPyplot(m)
        /\ UNCHANGED <<DEFAULT_HANDLE, image>>
        /\ UNCHANGED <<dataVars, authVars, changes>>

\* lines 67-86: draw on the held axes, then grid, layout and save through pyplot
RenderRatingGraph(m, t) ==
    PltOnCurrent(PltOnCurrent(AxDraw(m, loc[t].fig, t), t), t)

\* lines 62-91
FinishPlotRating(t) ==
    /\ pc[t] = "await_gather"
    /\ tool[t] = "plot_rating_graph"
    /\ LET ks == 1..Len(calls[t])
       IN  \/ /\ \E k \in ks : St(t, k) = "fail"
              /\ Done(t, McpError(500, "error_plotting"), TRUE, {})
              /\ SetPyplot(PltClose(Pyplot, t))
              /\ UNCHANGED image
           \/ /\ Completed(t, ks)
              /\ \A k \in ks : St(t, k) # "fail"
              /\ IF (\A k \in ks : St(t, k) = "empty") \/ (\E k \in ks : St(t, k) = "bad")
                 THEN /\ Done(t, McpError(500, "error_plotting"), TRUE, {})
                      /\ SetPyplot(PltClose(Pyplot, t))
                      /\ UNCHANGED image
                 ELSE LET m == RenderRatingGraph(Pyplot, t)
                      IN  /\ Done(t, [kind |-> "image", code |-> 0, body |-> "rating_graph"],
                                  FALSE, {k \in ks : St(t, k) = "ok"})
                          /\ image' = [image EXCEPT ![t] = Rendered(m, t)]
                          /\ SetPyplot(PlotToBase64(m, t))
    /\ UNCHANGED <<DEFAULT_HANDLE, tool, args, loc, calls>>
    /\ UNCHANGED <<dataVars, authVars, changes>>

-----------------------------------------------------------------------------
(* plot_performance_graph, plot_solved_rating_distribution,                  *)
(* plot_verdict_distribution: one upstream call, then the figure             *)

PlotTool ==
    [plot_performance_graph |->
        [ep |-> "user.rating", strip |-> FALSE, style |-> "seaborn-v0_8-darkgrid",
         tight_layout |-> TRUE],
     plot_solved_rating_distribution |->
        [ep |-> "user.status", strip |-> TRUE, style |-> "seaborn-v0_8-darkgrid",
         tight_layout |-> TRUE],
     plot_verdict_distribution |->
        [ep |-> "user.status", strip |-> TRUE, style |-> "seaborn-v0_8-deep",
         tight_layout |-> FALSE]]

PlotTools == DOMAIN PlotTool

\* lines 104-109, 156-160, 201-206
CallPlotTool(t, A) ==
    \E name \in PlotTools, a \in A :
        /\ Entered(t, name, a)
        /\ LET target_handle == OrDefault(ArgHandle(a))
           IN  IF target_handle = "" \/ (PlotTool[name].strip /\ Strip(target_handle) = "")
               THEN /\ Done(t, McpError(400, "specify_handle"), FALSE, {})
                    /\ UNCHANGED <<calls, loc>>
               ELSE /\ Suspend(t, "await", <<NewCall(PlotTool[name].ep, <<target_handle>>)>>)
                    /\ loc' = [loc EXCEPT ![t].target = <<target_handle>>]
        /\ UNCHANGED <<DEFAULT_HANDLE, image, mplVars>>
        /\ UNCHANGED <<dataVars, authVars, changes>>

\* lines 120-139, 175-184, 225-232: style, new figure, draw, layout
RenderPlotTool(m, t) ==
    LET m1 == Subplots(StyleUse(m, PlotTool[tool[t]].style), t)
        m2 == AxDraw(m1, Current(m1), t)
    IN  IF PlotTool[tool[t]].tight_layout THEN PltOnCurrent(m2, t) ELSE m2

\* lines 109-143, 160-188, 206-236
FinishPlotTool(t) ==
    /\ pc[t] = "await"
    /\ tool[t] \in PlotTools
    /\ Completed(t, {1})
    /\ IF St(t, 1) = "ok"
       THEN LET m == RenderPlotTool(Pyplot, t)
            IN  /\ Done(t, [kind |-> "image", code |-> 0, body |-> "plot"], FALSE, {1})
                /\ image' = [image EXCEPT ![t] = Rendered(m, t)]
                /\ loc' = [loc EXCEPT ![t].fig = Current(m)]
                /\ SetPyplot(PlotToBase64(m, t))
       ELSE /\ Done(t, McpError(500, "error_plotting"), TRUE, {})
            /\ SetPyplot(PltClose(Pyplot, t))
            /\ UNCHANGED <<image, loc>>
    /\ UNCHANGED <<DEFAULT_HANDLE, tool, args, calls>>
    /\ UNCHANGED <<dataVars, authVars, changes>>

-----------------------------------------------------------------------------
(* Specifications of the invocation layer *)

InitTools ==
    /\ DataOff
    /\ AuthOff
    /\ changes = <<>>
    /\ DEFAULT_HANDLE \in Defaults
    /\ NothingInvoked

\* Everything one invocation can do, drawing its arguments from every value
ToolStep(t) ==
    \/ CallUserStats(t) \/ FinishUserStats(t)
    \/ CallTextTool(t) \/ FinishTextTool(t)
    \/ CallRecommend(t) \/ RecommendUserInfo(t) \/ FinishRecommend(t)
    \/ CallCompare(t) \/ CompareUsers(t) \/ CompareRating(t) \/ CompareStatus(t)
    \/ CallLeetcodeDaily(t) \/ FinishLeetcodeDaily(t)
    \/ CallStatic(t)
    \/ CallPlotRating(t, RatingGraphArgs) \/ FinishPlotRating(t)
    \/ CallPlotTool(t, HandleArgs) \/ FinishPlotTool(t)
    \/ \E k \in 1..Len(calls[t]) : Respond(t, k)

\* One invocation of any tool, from the call to the response
NextTools == ToolStep(1)

SpecTools == InitTools /\ [][NextTools]_vars

\* The graph tools, called with handles
GraphRatingArgs == { [handle |-> "u1"], [handles |-> <<"u1", "u2">>] }
GraphHandleArgs == { [handle |-> "u1"] }

GraphStep(t) ==
    \/ CallPlotRating(t, GraphRatingArgs) \/ FinishPlotRating(t)
    \/ CallPlotTool(t, GraphHandleArgs) \/ FinishPlotTool(t)
    \/ \E k \in 1..Len(calls[t]) : Respond(t, k)

Quiet(t) == pc[t] \in {"idle", "done"}

\* Graph-tool invocations one after the other: a tool is called only after the
\* previous invocation has returned
Alone(t) == \A u \in Tasks \ {t} : Quiet(u)

NextGraphSeq ==
    \E t \in Tasks :
        \/ Alone(t) /\ CallPlotRating(t, GraphRatingArgs)
        \/ Alone(t) /\ FinishPlotRating(t)
        \/ Alone(t) /\ CallPlotTool(t, GraphHandleArgs)
        \/ Alone(t) /\ FinishPlotTool(t)
        \/ \E k \in 1..Len(calls[t]) : Alone(t) /\ Respond(t, k)

SpecGraphSeq == InitTools /\ [][NextGraphSeq]_vars

\* Graph-tool invocations as tasks of one event loop, switching at the awaits
NextGraphConc == \E t \in Tasks : GraphStep(t)

SpecGraphConc == InitTools /\ [][NextGraphConc]_vars

-----------------------------------------------------------------------------
(* Claims about the invocation layer *)

Finished(t) == pc[t] = "done"
AnyCallFailed(t) == \E k \in 1..Len(calls[t]) : St(t, k) = "fail"

\* C3 as stated: in every tool an exception raised by an upstream call or by
\* the transformation reaches the caller as an error response with a status
\* code and a message; no failed invocation returns a normal result.
C3_EveryFailureIsAnErrorResponse ==
    \A t \in Tasks :
        (Finished(t) /\ raised[t]) =>
            /\ outcome[t].kind = "error"
            /\ outcome[t].code # 0
            /\ outcome[t].body # ""

\* C3 as amended: in every tool except compare_codeforces_users such an
\* exception reaches the caller as an error response with code 500 and a
\* message; compare_codeforces_users returns a normal text instead (the
\* "comparison failed" text or the report).
C3_FailureIsAnErrorResponseExceptCompare ==
    \A t \in Tasks :
        (Finished(t) /\ raised[t]) =>
            IF tool[t] = "compare_codeforces_users"
            THEN /\ outcome[t].kind = "text"
                 /\ outcome[t].body \in {"comparison_failed", "report"}
            ELSE /\ outcome[t].kind = "error"
                 /\ outcome[t].code = 500
                 /\ outcome[t].body # ""

\* A tool other than the comparison got a payload its transformation raised on
\* and answered with the code-500 error.
C3_Witness ==
    \E t \in Tasks :
        /\ Finished(t)
        /\ raised[t]
        /\ tool[t] = "get_solved_problems"
        /\ St(t, 1) = "bad"
        /\ outcome[t] = McpError(500, "error_fetching")

\* No call repeats an earlier call of the same invocation that failed.
NoRetry ==
    \A t \in Tasks : \A j, k \in 1..Len(calls[t]) :
        (j < k /\ St(t, j) = "fail") =>
            ~(calls[t][j].ep = calls[t][k].ep /\ calls[t][j].arg = calls[t][k].arg)

\* C4 as stated: no tool retries a failed upstream call, and an invocation one
\* of whose upstream calls failed produces no result built from the calls that
\* succeeded.
C4_NoPartialFailureRecovery ==
    /\ NoRetry
    /\ \A t \in Tasks :
          (Finished(t) /\ AnyCallFailed(t)) =>
              /\ outcome[t].kind # "image"
              /\ used[t] = {}

\* C4 as amended: no tool retries a failed upstream call; in every tool except
\* compare_codeforces_users a failed upstream call ends the invocation with an
\* error and no result; compare_codeforces_users answers a failed user-info
\* call with the "comparison failed" text, and a failed per-user fetch with
\* the report, built from the user-info call and the other users' fetches, in
\* which that user's figures are "N/A".
C4_NoRecoveryExceptCompare ==
    /\ NoRetry
    /\ \A t \in Tasks :
          (Finished(t) /\ AnyCallFailed(t)) =>
              IF tool[t] # "compare_codeforces_users"
              THEN outcome[t].kind = "error" /\ used[t] = {}
              ELSE IF St(t, 1) = "fail"
                   THEN outcome[t].body = "comparison_failed" /\ used[t] = {}
                   ELSE /\ outcome[t].body = "report"
                        /\ 1 \in used[t]
                        /\ \A k \in used[t] : St(t, k) \in {"ok", "empty"}
                        /\ \A k \in 2..Len(calls[t]) :
                              St(t, k) = "fail" =>
                                 \E i \in loc[t].na : calls[t][k].arg = <<loc[t].target[i]>>

\* The comparison lost one user's fetch and still reported the other user's figures.
C4_Witness ==
    \E t \in Tasks :
        /\ Finished(t)
        /\ tool[t] = "compare_codeforces_users"
        /\ outcome[t].body = "report"
        /\ AnyCallFailed(t)
        /\ loc[t].na = {1}
        /\ Cardinality(used[t]) = 3

\* The upstream calls a tool's fan-out consists of, as (endpoint, argument) pairs
FanOut(t) ==
    CASE tool[t] = "recommend_problems" /\ pc[t] = "await_gather" ->
            {<<"user.status", loc[t].target>>, <<"problemset.problems", <<>>>>}
      [] tool[t] = "plot_rating_graph" /\ pc[t] = "await_gather" ->
            {<<"user.rating", <<loc[t].target[i]>>>> : i \in 1..Len(loc[t].target)}
      [] tool[t] = "compare_codeforces_users" /\ pc[t] \in {"await_rating", "await_status"} ->
            UNION {{<<"user.rating", <<loc[t].target[i]>>>>,
                    <<"user.status", <<loc[t].target[i]>>>>} : i \in 1..Len(loc[t].target)}
      [] OTHER -> {}

Started(t) == {<<calls[t][k].ep, calls[t][k].arg>> : k \in 1..Len(calls[t])}
Pending(t) == {k \in 1..Len(calls[t]) : St(t, k) = "pending"}

\* C7 as stated: an operation that calls several independent upstream endpoints
\* has started all of them whenever it waits for one of them (recommend_problems,
\* plot_rating_graph, compare_codeforces_users).
C7_ParallelFanOut == \A t \in Tasks : FanOut(t) \subseteq Started(t)

\* C7 as amended: recommend_problems and plot_rating_graph have started all of
\* their independent upstream calls whenever they wait for one of them;
\* compare_codeforces_users issues its per-user fetches one at a time, each
\* only after every earlier call of the invocation has completed.
C7_FanOutExceptCompare ==
    \A t \in Tasks :
        IF tool[t] = "compare_codeforces_users"
        THEN Pending(t) \subseteq {Len(calls[t])}
        ELSE FanOut(t) \subseteq Started(t)

\* recommend_problems waits with both of its fetches in flight.
C7_Witness ==
    \E t \in Tasks :
        /\ tool[t] = "recommend_problems"
        /\ pc[t] = "await_gather"
        /\ Pending(t) = {2, 3}

HandleTakingTools ==
    {"get_codeforces_user_stats", "recommend_problems", "compare_codeforces_users",
     "plot_rating_graph"} \cup TextTools \cup PlotTools \cup PlaceholderTools

NoHandleSupplied(a) == "handle" \notin DOMAIN a /\ "handles" \notin DOMAIN a

\* C10, first part: with no handle supplied and an empty default handle the
\* invocation ends with the code-400 error and has issued no upstream request.
C10_NoHandleIs400BeforeAnyCall ==
    \A t \in Tasks :
        (/\ tool[t] \in HandleTakingTools
         /\ pc[t] # "idle"
         /\ NoHandleSupplied(args[t])
         /\ DEFAULT_HANDLE = "") =>
            /\ Finished(t)
            /\ outcome[t].kind = "error"
            /\ outcome[t].code = 400
            /\ calls[t] = <<>>

\* C10, second part: get_codeforces_user_stats answers with the code-400 error
\* only when no non-empty handle was supplied and no default handle is configured.
C10_UserStats400OnlyWithoutHandles ==
    \A t \in Tasks :
        (/\ tool[t] = "get_codeforces_user_stats"
         /\ outcome[t].kind = "error"
         /\ outcome[t].code = 400) =>
            /\ \A i \in 1..Len(ArgHandles(args[t])) : ArgHandles(args[t])[i] = ""
            /\ DEFAULT_HANDLE = ""

\* C10: input validation precedes every upstream call: in each handle-taking
\* tool a call without a handle, the default handle being empty, ends with the
\* code-400 error before any upstream request; and get_codeforces_user_stats
\* gives that error only when no non-empty handle was supplied and no default
\* handle is configured.
C10_ValidationPrecedesUpstream ==
    C10_UserStats400OnlyWithoutHandles /\ C10_NoHandleIs400BeforeAnyCall

\* the rcParams a tool's own style sheet gives a fresh process
OwnRc(name) ==
    IF name = "plot_verdict_distribution"
    THEN [grid |-> "default", cycle |-> "deep"]
    ELSE [grid |-> "darkgrid", cycle |-> "default"]

\* C5: tool invocations share no mutable state: the picture a graph tool returns
\* depends on its own arguments, the configuration and the upstream answers
\* only, not on the tools invoked before it: it shows the invocation's own
\* figure, drawn with the tool's own style.
C5_ResultIndependentOfHistory ==
    \A t \in Tasks :
        outcome[t].kind = "image" =>
            /\ image[t].owner = t
            /\ image[t].data = {t}
            /\ image[t].rc = OwnRc(tool[t])

\* C6: under every interleaving of graph-tool invocations the picture an
\* invocation returns is rendered from the figure that invocation created and
\* drew on, and no invocation saves or closes a figure another one created.
C6_OwnFigureOnly ==
    /\ \A t \in Tasks :
          outcome[t].kind = "image" =>
              /\ image[t].fig = loc[t].fig
              /\ image[t].owner = t
              /\ image[t].data = {t}
    /\ \A f \in 1..Len(figures) :
          /\ figures[f].saved_by \subseteq {figures[f].owner}
          /\ figures[f].closed_by \subseteq {figures[f].owner}


-----------------------------------------------------------------------------
(* Authentication: SimpleJWTAuthProvider of mcp_instance.py *)

MaxAttempts == 3

\* config.TOKEN is asserted non-empty at import; a presented bearer token is any string
ConfiguredTokens == {"secret", "guess"}
PresentedTokens == {"secret", "guess", "secret ", ""}

AccessToken(token, client_id, scopes) ==
    [kind |-> "AccessToken", token |-> token, client_id |-> client_id, scopes |-> scopes]
None == [kind |-> "None"]

\* AccessToken(...) if token == self.token else None
LoadAccessTokenNonEmpty(self, token) ==
    IF token # "" THEN AccessToken(token, "puch-client", <<"*">>) ELSE None
load_access_token(self, token) ==
    IF token = self THEN AccessToken(token, "puch-client", <<"*">>) ELSE None

InitAuth ==
    /\ ToolsOff
    /\ DataOff
    /\ changes = <<>>
    /\ self_token \in ConfiguredTokens
    /\ attempts = <<>>

\* One request presents a bearer token; the provider reads self.token only
Authenticate ==
    /\ Len(attempts) < MaxAttempts
    /\ \E token \in PresentedTokens :
          attempts' = Append(attempts,
                         [token |-> token, result |-> load_access_token(self_token, token)])
    /\ UNCHANGED <<self_token, changes>>
    /\ UNCHANGED <<dataVars, toolVars>>

NextAuth == Authenticate

SpecAuth == InitAuth /\ [][NextAuth]_vars

\* C11: load_access_token returns an access token (client 'puch-client', scope
\* '*', carrying the presented token) if and only if the presented token equals
\* the configured AUTH_TOKEN, and None for every other token; this holds for
\* every attempt whatever the attempts before it were, so two attempts with the
\* same token get the same result.
C11_StaticBearerCheck ==
    /\ \A i \in 1..Len(attempts) :
          /\ (attempts[i].token = self_token) <=>
                (attempts[i].result = AccessToken(attempts[i].token, "puch-client", <<"*">>))
          /\ (attempts[i].token # self_token) <=> (attempts[i].result = None)
    /\ \A i, j \in 1..Len(attempts) :
          (attempts[i].token = attempts[j].token) => (attempts[i].result = attempts[j].result)

\* A wrong token was refused, then the right one accepted, then a wrong one refused again.
C11_Witness ==
    /\ Len(attempts) = 3
    /\ attempts[1].result = None
    /\ attempts[2].result.kind = "AccessToken"
    /\ attempts[2].token = self_token
    /\ attempts[3].result = None
    /\ attempts[3].token # ""

-----------------------------------------------------------------------------
(* get_upsolve_targets *)

\* C12: get_upsolve_targets, called for a user, returns a listing of at most
\* `count` contests the user participated in and left unfinished: the result
\* is a contest listing built from what upstream says about the user's
\* participation (or an error response), not a text that is the same for
\* every user.
C12_UpsolveTargetsFromParticipation ==
    \A t \in Tasks :
        (/\ Finished(t)
         /\ tool[t] = "get_upsolve_targets"
         /\ OrDefault(ArgHandle(args[t])) # "") =>
            \/ outcome[t].kind = "error"
            \/ /\ outcome[t].body = "upsolve_targets"
               /\ used[t] # {}

-----------------------------------------------------------------------------
(* The graph tools without data *)

\* every upstream call of the invocation came back without records
NoData(t) ==
    /\ calls[t] # <<>>
    /\ \A k \in 1..Len(calls[t]) : St(t, k) = "empty"

\* C13: a graph tool whose upstream data is empty (plot_rating_graph: every
\* requested handle has an empty rating history; plot_performance_graph: no
\* rating changes; plot_solved_rating_distribution: no rated accepted problem;
\* plot_verdict_distribution: no submissions) answers the caller with an error
\* response whose status code is 404.
C13_NoDataIs404 ==
    \A t \in Tasks :
        (/\ Finished(t)
         /\ tool[t] \in PlotTools \cup {"plot_rating_graph"}
         /\ NoData(t)) =>
            /\ outcome[t].kind = "error"
            /\ outcome[t].code = 404

-----------------------------------------------------------------------------
(* recommend_problems with one bound *)

\* exactly one of min_rating and max_rating was supplied
OneBoundSupplied == Cardinality(DOMAIN SuppliedWindow(dargs)) = 1

\* every fetched record carries the keys the code subscripts
RecordsComplete ==
    /\ \A i \in 1..Len(submissions) :
          submissions[i].verdict = "OK" => "contestId" \in DOMAIN submissions[i].problem
    /\ \A p \in FetchedProblems : "rating" \in DOMAIN p => "contestId" \in DOMAIN p

RespectsSupplied(p) ==
    /\ "min_rating" \in DOMAIN dargs => dargs.min_rating <= p.rating
    /\ "max_rating" \in DOMAIN dargs => p.rating <= dargs.max_rating

\* C14: recommend_problems called with exactly one of min_rating and
\* max_rating, for a user that exists and upstream records that are complete,
\* does not end in an error response: it returns the recommendations or the
\* 'no suitable problems' message, and every recommended problem respects the
\* supplied bound.
C14_OneBoundIsServed ==
    (/\ dpc = "done"
     /\ OneBoundSupplied
     /\ user_info_list # <<>>
     /\ RecordsComplete) =>
        /\ response.kind = "text"
        /\ \A i \in 1..Len(response.lines) : RespectsSupplied(response.lines[i])

-----------------------------------------------------------------------------
(* get_solved_problems: order, dates and length of the listing *)

Min(a, b) == IF a <= b THEN a ELSE b

\* the accepted submissions of the problem a listing line names
AcceptedOf(line) ==
    {i \in 1..Len(submissions) :
        /\ submissions[i].verdict = "OK"
        /\ PKey(submissions[i].problem) = <<{line.contestId}, line.index>>}

\* C15: in the listing get_solved_problems returns, the solves are in
\* non-increasing order of submission time, every problem carries the time of
\* its most recent accepted submission, and for count >= 0 the listing holds
\* exactly min(count, number of distinct accepted problems) entries.
C15_SolvedListing ==
    (dpc = "done" /\ response.kind = "text") =>
        /\ \A i, j \in 1..Len(response.lines) :
              i < j => response.lines[i].solved_on >= response.lines[j].solved_on
        /\ \A i \in 1..Len(response.lines) :
              /\ AcceptedOf(response.lines[i]) # {}
              /\ \A k \in AcceptedOf(response.lines[i]) :
                    submissions[k].creationTimeSeconds <= response.lines[i].solved_on
              /\ \E k \in AcceptedOf(response.lines[i]) :
                    submissions[k].creationTimeSeconds = response.lines[i].solved_on
        /\ dargs.count >= 0 =>
              Len(response.lines) = Min(dargs.count, Cardinality(AcceptedKeys))

\* One problem accepted twice, the older submission fetched first: the listing
\* shows it once with the later time.
C15_Witness ==
    /\ dpc = "done"
    /\ response.kind = "text"
    /\ Len(submissions) = 2
    /\ submissions[1].verdict = "OK"
    /\ submissions[2].verdict = "OK"
    /\ submissions[1].problem = submissions[2].problem
    /\ submissions[1].creationTimeSeconds < submissions[2].creationTimeSeconds
    /\ Len(response.lines) = 1
    /\ response.lines[1].solved_on = submissions[2].creationTimeSeconds

-----------------------------------------------------------------------------
(* get_rating_changes *)

MaxChanges == 2

ContestIds == 1..MaxChanges
Ratings == {1200, 1250}

RatingChange ==
    [contestId : ContestIds, ratingUpdateTimeSeconds : Times,
     oldRating : Ratings, newRating : Ratings]

\* "🔼" if delta > 0 else "🔽" if delta < 0 else "➖"
Emoji(delta) == IF delta > 0 THEN "up" ELSE IF delta < 0 THEN "down" ELSE "neutral"

\* lines 168-172: the two lines written for one change
ChangeLine(change) ==
    LET delta == change.newRating - change.oldRating
    IN  [contestId |-> change.contestId, oldRating |-> change.oldRating,
         newRating |-> change.newRating, delta |-> delta, emoji |-> Emoji(delta)]

\* A user has one rating change per contest
InitRatingChanges ==
    /\ ToolsOff
    /\ AuthOff
    /\ changes \in {s \in SeqsUpTo(RatingChange, MaxChanges) :
                       \A i, j \in 1..Len(s) : s[i].contestId = s[j].contestId => i = j}
    /\ dpc = "fetched"
    /\ dargs \in [count : Counts]
    /\ submissions = <<>>
    /\ user_info_list = <<>>
    /\ problemset_data = <<>>
    /\ solved_submissions = <<>>
    /\ problem_ratings = EmptyCounts
    /\ window = <<>>
    /\ candidates = <<>>
    /\ response = NoResponse

\* lines 163-173
RatingChangesFormat ==
    /\ dpc = "fetched"
    /\ response' =
          IF changes = <<>>
          THEN [kind |-> "text", body |-> "no_rating_changes", lines |-> <<>>]
          ELSE LET shown == Slice(SortedDesc(changes, "ratingUpdateTimeSeconds"), dargs.count)
               IN  [kind |-> "text", body |-> "recent_rating_changes",
                    lines |-> [i \in 1..Len(shown) |-> ChangeLine(shown[i])]]
    /\ dpc' = "done"
    /\ UNCHANGED <<dargs, submissions, user_info_list, problemset_data,
                   solved_submissions, problem_ratings, window, candidates>>
    /\ UNCHANGED <<toolVars, authVars, changes>>

NextRatingChanges == RatingChangesFormat

SpecRatingChanges == InitRatingChanges /\ [][NextRatingChanges]_vars

\* the fetched change a line is about
ChangeOf(line) == CHOOSE i \in 1..Len(changes) : changes[i].contestId = line.contestId
ListedChanges == {ChangeOf(response.lines[i]) : i \in 1..Len(response.lines)}
When(i) == changes[i].ratingUpdateTimeSeconds

\* what holds of every listing whatever count is: the lines are distinct fetched
\* changes, newest first, no unlisted change is newer than a listed one, and
\* every line shows newRating - oldRating with the marker of its sign
ListingIsNewestFirst ==
    /\ \A i \in 1..Len(response.lines) :
          /\ \E k \in 1..Len(changes) : changes[k].contestId = response.lines[i].contestId
          /\ response.lines[i].oldRating = changes[ChangeOf(response.lines[i])].oldRating
          /\ response.lines[i].newRating = changes[ChangeOf(response.lines[i])].newRating
          /\ response.lines[i].delta =
                response.lines[i].newRating - response.lines[i].oldRating
          /\ (response.lines[i].delta > 0) <=> (response.lines[i].emoji = "up")
          /\ (response.lines[i].delta < 0) <=> (response.lines[i].emoji = "down")
          /\ (response.lines[i].delta = 0) <=> (response.lines[i].emoji = "neutral")
    /\ \A i, j \in 1..Len(response.lines) :
          /\ response.lines[i].contestId = response.lines[j].contestId => i = j
          /\ i < j => When(ChangeOf(response.lines[i])) >= When(ChangeOf(response.lines[j]))
    /\ \A k \in (1..Len(changes)) \ ListedChanges :
          \A l \in ListedChanges : When(k) <= When(l)

\* C16: get_rating_changes lists exactly min(count, n) of the n fetched rating
\* changes (none when that number is not positive), those with the largest
\* ratingUpdateTimeSeconds, newest first; each line's delta is
\* newRating - oldRating and its marker is 'up' for delta > 0, 'down' for
\* delta < 0, 'neutral' for delta = 0.
C16_RatingChangesListing ==
    (dpc = "done" /\ response.kind = "text") =>
        /\ Len(response.lines) =
              IF Min(dargs.count, Len(changes)) > 0 THEN Min(dargs.count, Len(changes)) ELSE 0
        /\ ListingIsNewestFirst

\* The part of C16 the code keeps: order, deltas and markers for every count,
\* and the length min(count, n) for count >= 0.
C16_HoldsForNonNegativeCount ==
    (dpc = "done" /\ response.kind = "text") =>
        /\ dargs.count >= 0 => Len(response.lines) = Min(dargs.count, Len(changes))
        /\ ListingIsNewestFirst

=============================================================================
